---- MODULE Spec2Model ----
(***************************************************************************)
(* A model of e5-server.py: a Flask process that loads one sentence        *)
(* embedding model at import time and serves POST /embed, POST /batch and  *)
(* GET /health.                                                            *)
(*                                                                         *)
(* JSON strings are sequences of one-character strings, so that            *)
(* str.startswith, the f-string and the `in` operator are computed and     *)
(* not assumed.  Every JSON value is a record of one shape, tagged by k.   *)
(***************************************************************************)
EXTENDS Integers, Sequences, FiniteSets

VARIABLES pc, model, loads, req

vars == <<pc, model, loads, req>>

----------------------------------------------------------------------------
(* Bounds of the model *)

\* longest tail appended to a head of TextHeads to form a text
MaxTail == 1
\* longest texts array of a /batch body
MaxBatch == 2
\* request threads of the threaded server
NumWorkers == 2

(* Program constants *)

Dimension == 1024

----------------------------------------------------------------------------
(* JSON values as request.get_json() returns them *)

JNull == [k |-> "null", s |-> <<>>, n |-> 0, items |-> <<>>]
JStr(s) == [k |-> "str", s |-> s, n |-> 0, items |-> <<>>]
JNum(n) == [k |-> "num", s |-> <<>>, n |-> n, items |-> <<>>]
JBool(b) == [k |-> "bool", s |-> <<>>, n |-> IF b THEN 1 ELSE 0, items |-> <<>>]
JList(items) == [k |-> "list", s |-> <<>>, n |-> 0, items |-> items]

\* the literals of the source
TEXT == <<"t", "e", "x", "t">>
TEXTS == <<"t", "e", "x", "t", "s">>
TYPE == <<"t", "y", "p", "e">>
QUERY == <<"q", "u", "e", "r", "y">>
PASSAGE == <<"p", "a", "s", "s", "a", "g", "e">>
QueryPrefix == <<"q", "u", "e", "r", "y", ":">>
PassagePrefix == <<"p", "a", "s", "s", "a", "g", "e", ":">>

\* a parsed body: a JSON value, an object carrying its keys and the three
\* fields the handlers read (JNull where the key is absent)
Lift(v) ==
  [k |-> v.k, s |-> v.s, n |-> v.n, items |-> v.items,
   keys |-> {}, text |-> JNull, texts |-> JNull, type |-> JNull]
JObj(keys, text, texts, type) ==
  [k |-> "obj", s |-> <<>>, n |-> 0, items |-> <<>>, keys |-> keys,
   text |-> IF TEXT \in keys THEN text ELSE JNull,
   texts |-> IF TEXTS \in keys THEN texts ELSE JNull,
   type |-> IF TYPE \in keys THEN type ELSE JNull]

----------------------------------------------------------------------------
(* Python semantics the handlers rely on *)

\* str.startswith
StartsWith(s, p) == Len(s) >= Len(p) /\ SubSeq(s, 1, Len(p)) = p

\* truth value of a JSON value (`not data`)
Truthy(v) ==
  CASE v.k = "null" -> FALSE
    [] v.k = "str" -> v.s # <<>>
    [] v.k = "num" -> v.n # 0
    [] v.k = "bool" -> v.n # 0
    [] v.k = "list" -> v.items # <<>>
    [] v.k = "obj" -> v.keys # {}

\* whether `key in data` is defined; on a number it raises TypeError
CanContain(v) == v.k \in {"obj", "list", "str"}

\* substring test, `key in data` for a str
HasSub(s, key) ==
  \E i \in 1..(Len(s) - Len(key) + 1) : SubSeq(s, i, i + Len(key) - 1) = key

\* `key in data`
Contains(key, v) ==
  CASE v.k = "obj" -> key \in v.keys
    [] v.k = "list" -> \E i \in 1..Len(v.items) : v.items[i] = JStr(key)
    [] v.k = "str" -> HasSub(v.s, key)
    [] OTHER -> FALSE

Digits == <<"0", "1", "2", "3", "4", "5", "6", "7", "8", "9">>

RECURSIVE Dec(_)
Dec(n) ==
  IF n < 10 THEN <<Digits[n + 1]>>
  ELSE Dec(n \div 10) \o <<Digits[(n % 10) + 1]>>

\* what an f-string renders for a JSON value ("{prefix}")
PyStr(v) ==
  CASE v.k = "str" -> v.s
    [] v.k = "null" -> <<"N", "o", "n", "e">>
    [] v.k = "num" -> Dec(v.n)
    [] v.k = "bool" -> IF v.n # 0 THEN <<"T", "r", "u", "e">>
                       ELSE <<"F", "a", "l", "s", "e">>
    [] OTHER -> <<"[", "]">>

----------------------------------------------------------------------------
(* The model handle and the library's encode *)

ModelName == "intfloat/multilingual-e5-large"
Unloaded == [loaded |-> FALSE, name |-> "", dim |-> 0]
Loaded == [loaded |-> TRUE, name |-> ModelName, dim |-> Dimension]

\* the vector the library computes for one string
Emb(s) == [of |-> s]
\* model.encode on a list: one row per element, in order
EncodeList(strs) == [i \in 1..Len(strs) |-> Emb(strs[i])]

----------------------------------------------------------------------------
(* A request in a handler: its locals, what it handed to encode, its answer *)

NoCall == [shape |-> "none", strs |-> <<>>]
NoPayload == [kind |-> "none", msg |-> "", vecs |-> <<>>, model |-> "", dim |-> 0]
ErrorPayload(msg) == [NoPayload EXCEPT !.kind = "error", !.msg = msg]
ErrorPage == [NoPayload EXCEPT !.kind = "errorpage"]

NewReq(ep, body, ok) ==
  [ep |-> ep, body |-> body, ok |-> ok,
   line |-> IF ep = "health" THEN "health" ELSE "check",
   prefix |-> JNull, out |-> <<>>, emb |-> <<>>,
   handed |-> NoCall, calls |-> 0, status |-> 0, payload |-> NoPayload]

Idle == [NewReq("none", Lift(JNull), TRUE) EXCEPT !.line = "idle"]

\* `return jsonify(...), status`
Return(st, status, payload) ==
  [st EXCEPT !.line = "done", !.status = status, !.payload = payload]

\* mutant: a catch-all that answers every exception as a client error
RaiseAsBadRequest(st) == Return(st, 400, ErrorPayload("Bad request"))

\* an exception leaves the handler: Flask answers 500 with its error page
Raise(st) == Return(st, 500, ErrorPage)

----------------------------------------------------------------------------
(* embed(): POST /embed *)

\* mutant: `if not data:` alone, the key is not looked for
EmbedCheckOnlyEmpty(st) ==
  IF ~Truthy(st.body) THEN Return(st, 400, ErrorPayload("Missing text field"))
  ELSE [st EXCEPT !.line = "prefix"]

\* data = request.get_json(); if not data or 'text' not in data: return 400
EmbedCheck(st) ==
  LET data == st.body IN
  IF ~Truthy(data) THEN Return(st, 400, ErrorPayload("Missing text field"))
  ELSE IF ~CanContain(data) THEN Raise(st)
  ELSE IF ~Contains(TEXT, data)
    THEN Return(st, 400, ErrorPayload("Missing text field"))
  ELSE [st EXCEPT !.line = "prefix"]

\* mutant: the f-string without its space, f"{prefix}:{text}"
PrefixTextNoSpace(prefix, text) ==
  IF ~StartsWith(text, QueryPrefix) /\ ~StartsWith(text, PassagePrefix)
  THEN PyStr(prefix) \o <<":">> \o text
  ELSE text

\* mutant: only 'query:' is looked for
PrefixTextQueryOnly(prefix, text) ==
  IF ~StartsWith(text, QueryPrefix)
  THEN PyStr(prefix) \o <<":", " ">> \o text
  ELSE text

\* if not text.startswith('query:') and not text.startswith('passage:'):
\*     text = f"{prefix}: {text}"
PrefixText(prefix, text) ==
  IF ~StartsWith(text, QueryPrefix) /\ ~StartsWith(text, PassagePrefix)
  THEN PyStr(prefix) \o <<":", " ">> \o text
  ELSE text

\* text = data['text']; prefix = data.get('type', 'passage'); the prefixing
EmbedPrefix(st) ==
  LET data == st.body IN
  IF data.k # "obj" THEN Raise(st)
  ELSE
    LET text == data.text
        prefix == IF TYPE \in data.keys THEN data.type ELSE JStr(PASSAGE)
    IN IF text.k # "str" THEN Raise(st)
       ELSE [st EXCEPT !.prefix = prefix,
                       !.out = <<PrefixText(prefix, text.s)>>,
                       !.line = "encode"]

\* embedding = model.encode(text, normalize_embeddings=True)
EmbedEncode(st, m) ==
  IF ~m.loaded THEN Raise(st)
  ELSE
    LET called == [st EXCEPT !.calls = st.calls + 1,
                             !.handed = [shape |-> "str", strs |-> st.out]]
    IN IF ~st.ok THEN Raise(called)
       ELSE [called EXCEPT !.emb = <<Emb(st.out[1])>>, !.line = "respond"]

\* return jsonify({'embedding': embedding.tolist()})
EmbedRespond(st) ==
  Return(st, 200, [NoPayload EXCEPT !.kind = "embedding", !.vecs = st.emb])

----------------------------------------------------------------------------
(* health(): GET /health *)

HealthStep(st, m) ==
  IF ~m.loaded THEN Raise(st)
  ELSE Return(st, 200,
              [NoPayload EXCEPT !.kind = "health", !.msg = "ok",
                                !.model = ModelName, !.dim = m.dim])

----------------------------------------------------------------------------
(* batch_embed(): POST /batch *)

\* mutant: the check copied from embed(), looking for 'text'
BatchCheckTextKey(st) ==
  LET data == st.body IN
  IF ~Truthy(data) THEN Return(st, 400, ErrorPayload("Missing texts field"))
  ELSE IF ~CanContain(data) THEN Raise(st)
  ELSE IF ~Contains(TEXT, data)
    THEN Return(st, 400, ErrorPayload("Missing texts field"))
  ELSE [st EXCEPT !.line = "prefix"]

\* data = request.get_json(); if not data or 'texts' not in data: return 400
BatchCheck(st) ==
  LET data == st.body IN
  IF ~Truthy(data) THEN Return(st, 400, ErrorPayload("Missing texts field"))
  ELSE IF ~CanContain(data) THEN Raise(st)
  ELSE IF ~Contains(TEXTS, data)
    THEN Return(st, 400, ErrorPayload("Missing texts field"))
  ELSE [st EXCEPT !.line = "prefix"]

\* whether `for text in texts` can iterate the value
Iterable(v) == v.k \in {"list", "str"}

\* the elements `for text in texts` visits: a list's items, a str's characters
IterItems(v) ==
  IF v.k = "list" THEN v.items
  ELSE [i \in 1..Len(v.s) |-> JStr(<<v.s[i]>>)]

\* the body of the loop: what is appended for one text
BatchPrefixItem(prefix, text) ==
  IF ~StartsWith(text, QueryPrefix) /\ ~StartsWith(text, PassagePrefix)
  THEN PyStr(prefix) \o <<":", " ">> \o text
  ELSE text

\* mutant: prefixed_texts.insert(0, ...) in place of append
RECURSIVE BatchLoopPrepend(_, _, _)
BatchLoopPrepend(prefix, items, acc) ==
  IF items = <<>> THEN [raised |-> FALSE, out |-> acc]
  ELSE IF Head(items).k # "str" THEN [raised |-> TRUE, out |-> acc]
  ELSE BatchLoopPrepend(prefix, Tail(items),
                        <<BatchPrefixItem(prefix, Head(items).s)>> \o acc)

\* prefixed_texts = []; for text in texts: prefixed_texts.append(...)
\* text.startswith raises AttributeError on an element that is no str
RECURSIVE BatchLoop(_, _, _)
BatchLoop(prefix, items, acc) ==
  IF items = <<>> THEN [raised |-> FALSE, out |-> acc]
  ELSE IF Head(items).k # "str" THEN [raised |-> TRUE, out |-> acc]
  ELSE BatchLoop(prefix, Tail(items),
                 Append(acc, BatchPrefixItem(prefix, Head(items).s)))

\* texts = data['texts']; prefix = data.get('type', 'passage'); the loop
BatchPrefix(st) ==
  LET data == st.body IN
  IF data.k # "obj" THEN Raise(st)
  ELSE
    LET texts == data.texts
        prefix == IF TYPE \in data.keys THEN data.type ELSE JStr(PASSAGE)
    IN IF ~Iterable(texts) THEN Raise(st)
       ELSE LET r == BatchLoop(prefix, IterItems(texts), <<>>)
            IN IF r.raised THEN Raise(st)
               ELSE [st EXCEPT !.prefix = prefix, !.out = r.out,
                               !.line = "encode"]

\* embeddings = model.encode(prefixed_texts, normalize_embeddings=True)
BatchEncode(st, m) ==
  IF ~m.loaded THEN Raise(st)
  ELSE
    LET called == [st EXCEPT !.calls = st.calls + 1,
                             !.handed = [shape |-> "list", strs |-> st.out]]
    IN IF ~st.ok THEN Raise(called)
       ELSE [called EXCEPT !.emb = EncodeList(st.out), !.line = "respond"]

\* return jsonify({'embeddings': embeddings.tolist()})
BatchRespond(st) ==
  Return(st, 200, [NoPayload EXCEPT !.kind = "embeddings", !.vecs = st.emb])

----------------------------------------------------------------------------
(* One step of a handler, and a handler run to its return *)

Step(st, m) ==
  CASE st.ep = "embed" /\ st.line = "check" -> EmbedCheck(st)
    [] st.ep = "embed" /\ st.line = "prefix" -> EmbedPrefix(st)
    [] st.ep = "embed" /\ st.line = "encode" -> EmbedEncode(st, m)
    [] st.ep = "embed" /\ st.line = "respond" -> EmbedRespond(st)
    [] st.ep = "batch" /\ st.line = "check" -> BatchCheck(st)
    [] st.ep = "batch" /\ st.line = "prefix" -> BatchPrefix(st)
    [] st.ep = "batch" /\ st.line = "encode" -> BatchEncode(st, m)
    [] st.ep = "batch" /\ st.line = "respond" -> BatchRespond(st)
    [] st.ep = "health" /\ st.line = "health" -> HealthStep(st, m)
    [] OTHER -> st

RECURSIVE Run(_, _)
Run(st, m) == IF st.line \in {"done", "idle"} THEN st ELSE Run(Step(st, m), m)

----------------------------------------------------------------------------
(* The requests the environment sends *)

SeqsUpTo(S, n) == UNION {[1..m -> S] : m \in 0..n}

TailChars == {"a", ":", " "}
Tails == SeqsUpTo(TailChars, MaxTail)

\* prefixed texts, near misses of a prefix, and plain texts
TextHeads ==
  {<<>>, QueryPrefix, PassagePrefix, QUERY, PASSAGE,
   <<"Q", "u", "e", "r", "y", ":">>, <<" ">> \o QueryPrefix}
TextStrings == {h \o t : h \in TextHeads, t \in Tails}

\* what a body may carry under "type": any JSON scalar, nothing checks it
TypeValues ==
  {JStr(QUERY), JStr(PASSAGE), JStr(<<"d", "o", "c">>), JStr(<<>>),
   JNull, JNum(0), JNum(12)}
TypeChoices ==
  {[has |-> FALSE, v |-> JNull]} \cup {[has |-> TRUE, v |-> t] : t \in TypeValues}
TypeKey(tc) == IF tc.has THEN {TYPE} ELSE {}

\* what a body may carry under "text"
TextValues ==
  {JStr(s) : s \in TextStrings}
    \cup {JNull, JNum(5), JList(<<>>), JList(<<JStr(<<"a">>)>>)}

\* bodies that are no JSON object (None stands for an absent body too)
NonObjects ==
  {Lift(v) : v \in
     {JNull, JNum(0), JNum(5), JBool(TRUE), JBool(FALSE),
      JStr(<<>>), JStr(TEXT), JStr(TEXTS), JStr(<<"a">>),
      JList(<<>>), JList(<<JStr(TEXT)>>), JList(<<JStr(TEXTS)>>),
      JList(<<JStr(<<"a">>)>>)}}

\* objects without the required field ({} among them)
Fieldless == {JObj(TypeKey(tc), JNull, JNull, tc.v) : tc \in TypeChoices}

EmbedBodies ==
  NonObjects \cup Fieldless
    \cup {JObj({TEXTS}, JNull, JList(<<>>), JNull)}
    \cup {JObj({TEXT} \cup TypeKey(tc), v, JNull, tc.v) :
            v \in TextValues, tc \in TypeChoices}

BatchElems ==
  {JStr(<<"a">>), JStr(QueryPrefix \o <<"a">>), JStr(PassagePrefix),
   JStr(QUERY), JNum(5)}

\* what a body may carry under "texts"
TextsValues ==
  {JList(l) : l \in SeqsUpTo(BatchElems, MaxBatch)}
    \cup {JNull, JNum(5), JStr(<<"a", ":">>), JStr(QueryPrefix)}

BatchBodies ==
  NonObjects \cup Fieldless
    \cup {JObj({TEXT}, JStr(<<"a">>), JNull, JNull)}
    \cup {JObj({TEXTS} \cup TypeKey(tc), JNull, v, tc.v) :
            v \in TextsValues, tc \in TypeChoices}

\* the requests of the threaded runs
ThreadEmbedBodies ==
  {JObj({TEXT}, JStr(<<"a">>), JNull, JNull),
   JObj({TEXT, TYPE}, JStr(PassagePrefix \o <<"a">>), JNull, JStr(QUERY)),
   JObj({TEXT}, JNum(5), JNull, JNull),
   JObj({}, JNull, JNull, JNull)}
ThreadBatchBodies ==
  {JObj({TEXTS, TYPE}, JNull,
        JList(<<JStr(<<"a">>), JStr(QueryPrefix \o <<"a">>)>>), JStr(QUERY)),
   Lift(JNum(5))}

Workers == 1..NumWorkers

----------------------------------------------------------------------------
(* The process *)

Init ==
  /\ pc = "import"
  /\ model = Unloaded
  /\ loads = 0
  /\ req = [w \in Workers |-> Idle]

\* mutant: the load wrapped in try/except, the process goes on without a model
LoadModelSwallow(ok) ==
  /\ pc = "import"
  /\ loads' = loads + 1
  /\ model' = IF ok THEN Loaded ELSE model
  /\ pc' = "loaded"
  /\ UNCHANGED req

\* model = SentenceTransformer('intfloat/multilingual-e5-large') at import;
\* an exception there ends the process
LoadModel(ok) ==
  /\ pc = "import"
  /\ loads' = loads + 1
  /\ model' = IF ok THEN Loaded ELSE model
  /\ pc' = IF ok THEN "loaded" ELSE "crashed"
  /\ UNCHANGED req

\* app.run(host=host, port=port)
AppRun ==
  /\ pc = "loaded"
  /\ pc' = "serving"
  /\ UNCHANGED <<model, loads, req>>

\* mutant: embed() drops the global model when its request failed
EmbedDropsModel(body, ok) ==
  /\ pc = "serving"
  /\ req[1].line = "idle"
  /\ req' = [req EXCEPT ![1] = Run(NewReq("embed", body, ok), model)]
  /\ model' = IF req'[1].status = 500 THEN Unloaded ELSE model
  /\ UNCHANGED <<pc, loads>>

\* one request served from its arrival to its return, no other in between
Embed(body, ok) ==
  /\ pc = "serving"
  /\ req[1].line = "idle"
  /\ req' = [req EXCEPT ![1] = Run(NewReq("embed", body, ok), model)]
  /\ UNCHANGED <<pc, model, loads>>

Batch(body, ok) ==
  /\ pc = "serving"
  /\ req[1].line = "idle"
  /\ req' = [req EXCEPT ![1] = Run(NewReq("batch", body, ok), model)]
  /\ UNCHANGED <<pc, model, loads>>

Health ==
  /\ pc = "serving"
  /\ req[1].line = "idle"
  /\ req' = [req EXCEPT ![1] = Run(NewReq("health", Lift(JNull), TRUE), model)]
  /\ UNCHANGED <<pc, model, loads>>

\* the answer is sent; the handler's locals are gone
Reply(w) ==
  /\ req[w].line = "done"
  /\ req' = [req EXCEPT ![w] = Idle]
  /\ UNCHANGED <<pc, model, loads>>

Next ==
  \/ \E ok \in BOOLEAN : LoadModel(ok)
  \/ AppRun
  \/ \E body \in EmbedBodies, ok \in BOOLEAN : Embed(body, ok)
  \/ \E body \in BatchBodies, ok \in BOOLEAN : Batch(body, ok)
  \/ Health
  \/ \E w \in Workers : Reply(w)

Spec == Init /\ [][Next]_vars

\* the threaded server: a thread takes a request, then runs its handler a
\* step at a time, interleaved with the other threads
Accept(w, ep, body, ok) ==
  /\ pc = "serving"
  /\ req[w].line = "idle"
  /\ req' = [req EXCEPT ![w] = NewReq(ep, body, ok)]
  /\ UNCHANGED <<pc, model, loads>>

\* mutant: a handler that failed drops the global model
ThreadStepDropsModel(w) ==
  /\ pc = "serving"
  /\ req[w].line \notin {"idle", "done"}
  /\ req' = [req EXCEPT ![w] = Step(req[w], model)]
  /\ model' = IF req'[w].status = 500 THEN Unloaded ELSE model
  /\ UNCHANGED <<pc, loads>>

ThreadStep(w) ==
  /\ pc = "serving"
  /\ req[w].line \notin {"idle", "done"}
  /\ req' = [req EXCEPT ![w] = Step(req[w], model)]
  /\ UNCHANGED <<pc, model, loads>>

NextThreaded ==
  \/ \E ok \in BOOLEAN : LoadModel(ok)
  \/ AppRun
  \/ \E w \in Workers, body \in ThreadEmbedBodies, ok \in BOOLEAN :
       Accept(w, "embed", body, ok)
  \/ \E w \in Workers, body \in ThreadBatchBodies, ok \in BOOLEAN :
       Accept(w, "batch", body, ok)
  \/ \E w \in Workers : Accept(w, "health", Lift(JNull), TRUE)
  \/ \E w \in Workers : ThreadStep(w)
  \/ \E w \in Workers : Reply(w)

SpecThreaded == Init /\ [][NextThreaded]_vars

----------------------------------------------------------------------------
(* What the properties speak of *)

\* a text that already carries one of the two role prefixes
Prefixed(s) == StartsWith(s, QueryPrefix) \/ StartsWith(s, PassagePrefix)

\* the request's type as "{type}" renders it, "passage" without a type field
TypeWord(body) == IF TYPE \in body.keys THEN PyStr(body.type) ELSE PASSAGE

\* "{type}: {text}"
Tagged(body, s) == TypeWord(body) \o <<":", " ">> \o s

\* the prefixing rule for one text of a request
Ruled(body, s) == IF Prefixed(s) THEN s ELSE Tagged(body, s)

\* a body carrying a str under "text"
HasStrText(body) ==
  body.k = "obj" /\ TEXT \in body.keys /\ body.text.k = "str"

\* a body carrying under "texts" a sequence of str
HasStrTexts(body) ==
  /\ body.k = "obj"
  /\ TEXTS \in body.keys
  /\ Iterable(body.texts)
  /\ \A i \in 1..Len(IterItems(body.texts)) : IterItems(body.texts)[i].k = "str"

\* the claim's words: the body is absent, empty or has no such key
NoKey(key, body) == body.k # "obj" \/ key \notin body.keys

\* the body is falsy in Python: None, {}, [], "", 0, false
Falsy(body) ==
  \/ body.k = "null"
  \/ body.k \in {"num", "bool"} /\ body.n = 0
  \/ body.k = "str" /\ body.s = <<>>
  \/ body.k = "list" /\ body.items = <<>>
  \/ body.k = "obj" /\ body.keys = {}

\* key is a key of the object, an element of the array, a part of the string
Member(key, body) ==
  \/ body.k = "obj" /\ key \in body.keys
  \/ body.k = "list" /\ \E i \in 1..Len(body.items) : body.items[i] = JStr(key)
  \/ body.k = "str" /\ HasSub(body.s, key)

\* the body is falsy, or a container that does not hold the key
LacksField(key, body) ==
  Falsy(body) \/ (body.k \in {"obj", "list", "str"} /\ ~Member(key, body))

Done(r) == r.line = "done"

----------------------------------------------------------------------------
(* C1: a text of /embed, or an element of texts of /batch, that does not
   start with "query:" or "passage:" is handed to encode as "{type}: {text}",
   type being the request's type field, "passage" when there is none. *)
C1_UnprefixedIsTagged ==
  \A w \in Workers :
    LET r == req[w] IN
    Done(r) =>
      /\ (r.ep = "embed" /\ HasStrText(r.body) /\ ~Prefixed(r.body.text.s)) =>
           /\ r.calls = 1
           /\ r.handed = [shape |-> "str",
                          strs |-> <<Tagged(r.body, r.body.text.s)>>]
      /\ (r.ep = "batch" /\ HasStrTexts(r.body)) =>
           LET items == IterItems(r.body.texts) IN
           /\ r.calls = 1
           /\ r.handed.shape = "list"
           /\ Len(r.handed.strs) = Len(items)
           /\ \A i \in 1..Len(items) :
                ~Prefixed(items[i].s) =>
                  r.handed.strs[i] = Tagged(r.body, items[i].s)

C1_Witness ==
  \E w \in Workers :
    /\ Done(req[w])
    /\ req[w].ep = "embed"
    /\ req[w].body.type = JStr(QUERY)
    /\ req[w].body.text = JStr(QUERY \o <<" ">>)
    /\ req[w].handed.strs = <<QUERY \o <<":", " ">> \o QUERY \o <<" ">>>>

(* C2: a text that already starts with "query:" or "passage:" is handed to
   encode unchanged, whatever the type field says. *)
C2_PrefixedIsUnchanged ==
  \A w \in Workers :
    LET r == req[w] IN
    Done(r) =>
      /\ (r.ep = "embed" /\ HasStrText(r.body) /\ Prefixed(r.body.text.s)) =>
           /\ r.calls = 1
           /\ r.handed = [shape |-> "str", strs |-> <<r.body.text.s>>]
      /\ (r.ep = "batch" /\ HasStrTexts(r.body)) =>
           LET items == IterItems(r.body.texts) IN
           /\ r.calls = 1
           /\ Len(r.handed.strs) = Len(items)
           /\ \A i \in 1..Len(items) :
                Prefixed(items[i].s) => r.handed.strs[i] = items[i].s

C2_Witness ==
  \E w \in Workers :
    /\ Done(req[w])
    /\ req[w].ep = "embed"
    /\ req[w].body.type = JStr(QUERY)
    /\ req[w].body.text = JStr(PassagePrefix \o <<"a">>)
    /\ req[w].handed.strs = <<PassagePrefix \o <<"a">>>>

(* C3 as stated: /embed answers 400 {"error": "Missing text field"} exactly
   when the body is absent, empty or has no text key, then without calling
   encode, and in every other case does not answer 400 and goes on to
   encode. *)
C3_AsStated ==
  \A w \in Workers :
    LET r == req[w] IN
    (Done(r) /\ r.ep = "embed") =>
      /\ (r.status = 400 /\ r.payload = ErrorPayload("Missing text field"))
           <=> NoKey(TEXT, r.body)
      /\ NoKey(TEXT, r.body) => r.calls = 0
      /\ ~NoKey(TEXT, r.body) => (r.status # 400 /\ r.calls >= 1)

(* C3 amended: /embed answers 400 {"error": "Missing text field"} exactly
   when the body is falsy or is an object, array or string that does not
   hold "text", then without calling encode; in every other case it does not
   answer 400: it calls encode when the body is an object whose text is a
   str, and otherwise ends as an unhandled error (500) without calling
   encode. *)
C3_MissingText ==
  \A w \in Workers :
    LET r == req[w] IN
    (Done(r) /\ r.ep = "embed") =>
      /\ r.status = 400 <=> LacksField(TEXT, r.body)
      /\ r.status = 400 =>
           (r.payload = ErrorPayload("Missing text field") /\ r.calls = 0)
      /\ ~LacksField(TEXT, r.body) =>
           IF HasStrText(r.body) THEN r.calls = 1
           ELSE r.status = 500 /\ r.calls = 0

C3_Witness ==
  \E w \in Workers :
    /\ Done(req[w])
    /\ req[w].ep = "embed"
    /\ req[w].body = JObj({}, JNull, JNull, JNull)
    /\ req[w].status = 400
    /\ req[w].payload.msg = "Missing text field"

(* C4 as stated: /batch answers 400 {"error": "Missing texts field"} exactly
   when the body is absent, empty or has no texts key, then without calling
   encode; a body whose texts key is present is not rejected with 400. *)
C4_AsStated ==
  \A w \in Workers :
    LET r == req[w] IN
    (Done(r) /\ r.ep = "batch") =>
      /\ (r.status = 400 /\ r.payload = ErrorPayload("Missing texts field"))
           <=> NoKey(TEXTS, r.body)
      /\ NoKey(TEXTS, r.body) => r.calls = 0

(* C4 amended: /batch answers 400 {"error": "Missing texts field"} exactly
   when the body is falsy or is an object, array or string that does not
   hold "texts", then without calling encode; an object whose texts key is
   present, an empty sequence included, is not rejected with 400. *)
C4_MissingTexts ==
  \A w \in Workers :
    LET r == req[w] IN
    (Done(r) /\ r.ep = "batch") =>
      /\ r.status = 400 <=> LacksField(TEXTS, r.body)
      /\ r.status = 400 =>
           (r.payload = ErrorPayload("Missing texts field") /\ r.calls = 0)
      /\ (r.body.k = "obj" /\ TEXTS \in r.body.keys) => r.status # 400
      /\ (r.body.k = "obj" /\ TEXTS \in r.body.keys
            /\ r.body.texts = JList(<<>>) /\ r.ok) => r.status = 200

C4_Witness ==
  \E w \in Workers :
    /\ Done(req[w])
    /\ req[w].ep = "batch"
    /\ req[w].body = JObj({}, JNull, JNull, JNull)
    /\ req[w].status = 400
    /\ req[w].payload.msg = "Missing texts field"

(* C5: a successful /batch with n texts hands encode, in one call, the n
   texts in their order, each by the prefixing rule applied to it alone, and
   answers n embeddings, the i-th being the model's output for the i-th. *)
C5_BatchOrder ==
  \A w \in Workers :
    LET r == req[w] IN
    (Done(r) /\ r.ep = "batch" /\ r.status = 200) =>
      LET items == IterItems(r.body.texts) IN
      /\ r.calls = 1
      /\ r.handed.shape = "list"
      /\ Len(r.handed.strs) = Len(items)
      /\ \A i \in 1..Len(items) : r.handed.strs[i] = Ruled(r.body, items[i].s)
      /\ r.payload.kind = "embeddings"
      /\ Len(r.payload.vecs) = Len(items)
      /\ \A i \in 1..Len(items) : r.payload.vecs[i] = Emb(r.handed.strs[i])

C5_Witness ==
  \E w \in Workers :
    /\ Done(req[w])
    /\ req[w].ep = "batch"
    /\ req[w].status = 200
    /\ req[w].body.texts =
         JList(<<JStr(<<"a">>), JStr(QueryPrefix \o <<"a">>)>>)
    /\ req[w].handed.strs =
         <<PASSAGE \o <<":", " ", "a">>, QueryPrefix \o <<"a">>>>

(* C6: the model is loaded exactly once, before any request is handled; a
   handler runs only in the serving process with the model loaded, and a
   failed load ends the process for good with no request ever handled. *)
C6_LoadedOnceBeforeServing ==
  /\ [](/\ loads <= 1
        /\ pc \in {"loaded", "serving"} => (loads = 1 /\ model = Loaded)
        /\ (\E w \in Workers : req[w].line # "idle") =>
             (pc = "serving" /\ loads = 1 /\ model = Loaded)
        /\ pc = "crashed" =>
             (model = Unloaded /\ \A w \in Workers : req[w] = Idle))
  /\ [][pc = "crashed" => pc' = "crashed"]_vars
  /\ [][loads = 1 => loads' = 1]_vars

C6_Witness ==
  \E w \in Workers :
    /\ Done(req[w])
    /\ req[w].status = 200
    /\ loads = 1
    /\ pc = "serving"

(* C7: once the service has started, every /health answers 200 with status
   "ok", the model's name and the loaded model's dimension, whatever
   requests came before. *)
C7_HealthAlwaysOk ==
  \A w \in Workers :
    LET r == req[w] IN
    (Done(r) /\ r.ep = "health") =>
      /\ r.status = 200
      /\ r.payload = [kind |-> "health", msg |-> "ok", vecs |-> <<>>,
                      model |-> "intfloat/multilingual-e5-large",
                      dim |-> Dimension]

C7_Witness ==
  \E w \in Workers :
    /\ Done(req[w])
    /\ req[w].ep = "health"
    /\ req[w].status = 200
    /\ req[w].payload.dim = Dimension

\* the handler gets as far as encode: the field is there and of the type
WellTyped(r) ==
  IF r.ep = "embed" THEN HasStrText(r.body) ELSE HasStrTexts(r.body)
FieldOf(r) == IF r.ep = "embed" THEN TEXT ELSE TEXTS

(* C8: only a missing field is answered 400; a request that passes the
   field check and then fails (encode fails, or the field is not of the
   expected type) ends as 500 with no embedding, never 400 or 200, and
   encode is called at most once. *)
C8_OnlyMissingFieldIs400 ==
  \A w \in Workers :
    LET r == req[w] IN
    (Done(r) /\ r.ep \in {"embed", "batch"}) =>
      /\ r.calls <= 1
      /\ r.status = 400 =>
           (LacksField(FieldOf(r), r.body) /\ r.payload.kind = "error")
      /\ (~LacksField(FieldOf(r), r.body) /\ (~WellTyped(r) \/ ~r.ok)) =>
           /\ r.status = 500
           /\ r.payload = ErrorPage
           /\ r.calls = IF WellTyped(r) THEN 1 ELSE 0

C8_Witness ==
  \E w \in Workers :
    /\ Done(req[w])
    /\ req[w].ep = "embed"
    /\ HasStrText(req[w].body)
    /\ ~req[w].ok
    /\ req[w].status = 500
    /\ req[w].calls = 1

(* C9: no handler writes the model handle, and whatever the interleaving of
   the requests in flight, each hands encode the texts and answers the
   status it would alone (given what encode does for it). *)
C9_Independent ==
  /\ [](\A w \in Workers :
          LET r == req[w]
              alone == Run(NewReq(r.ep, r.body, r.ok), Loaded)
          IN /\ r.calls > 0 => r.handed = alone.handed
             /\ Done(r) => (r.handed = alone.handed /\ r.status = alone.status))
  /\ [][pc = "serving" => model' = model]_vars

C9_Witness ==
  \E v, w \in Workers :
    /\ v # w
    /\ req[v].line = "encode"
    /\ req[v].ep = "embed"
    /\ Done(req[w])
    /\ req[w].ep = "batch"
    /\ req[w].status = 500
    /\ req[w].calls = 1

(* C10: every string handed to encode, whatever the type field, begins with
   "query:" or "passage:". *)
C10_AlwaysTagged ==
  \A w \in Workers :
    req[w].calls > 0 =>
      \A i \in 1..Len(req[w].handed.strs) : Prefixed(req[w].handed.strs[i])

====
